---- MODULE Spec2Model ----
(***************************************************************************)
(* The streaming front of tmc2-rs (src/src/lib.rs): a Decoder owns a       *)
(* bounded crossbeam channel of capacity 1, start() takes the sender out   *)
(* of the Decoder and moves it into one worker thread that walks the V3C   *)
(* unit container group by group and publishes every reconstructed frame,  *)
(* and the consumer pulls with recv_frame() until it returns None.         *)
(*                                                                         *)
(* The container parser (ssvu), the per-group decode (decoder::Decoder)    *)
(* and the channel itself live outside lib.rs; they are modelled by what   *)
(* lib.rs relies on: ssvu.decode consumes one unit group, decoder.decode   *)
(* sends the group's frames in order through its sender clone and returns  *)
(* Err only when a send fails, and either may fault (panic).               *)
(***************************************************************************)
EXTENDS Naturals, Sequences, FiniteSets, TLC

\* ------------------------------------------------------------------ bounds
\* Units in the container handed to the decoder.
MaxUnits == 4
\* Calls of Decoder::start the client makes.
MaxStartCalls == 2
\* End-of-stream results one consumer thread collects before it stops asking.
MaxNone == 2
\* Calls of PyTMC2Decoder.close the Python client makes.
MaxCloseCalls == 2

\* The threads that call recv_frame(&self) on the shared Decoder.
Consumers == {"c1", "c2"}

\* ------------------------------------------------------------------- input
\* What decoding one frame of a unit group comes to: reconstructed ("ok"),
\* skipped after a patch or video sub-stream error ("err"), or a fault
\* inside decoder.decode ("panic").
FrameOutcome == {"ok", "err", "panic"}

FrameSeqs(n) == UNION {[1..k -> FrameOutcome] : k \in 0..n}

\* A unit group: its parameter-set unit and one data unit per coded frame.
\* A group whose units ssvu.decode cannot frame faults in ssvu.decode.
Groups(n) ==
    {[ssvu |-> "ok", frames |-> f] : f \in FrameSeqs(n - 1)}
        \cup {[ssvu |-> "panic", frames |-> <<>>]}

UnitsOf(g) == 1 + Len(g.frames)

RECURSIVE ContainersOf(_)
ContainersOf(n) ==
    IF n = 0 THEN {<<>>}
    ELSE {<<>>} \cup
         UNION {{<<g>> \o c : c \in ContainersOf(n - UnitsOf(g))} : g \in Groups(n)}

RECURSIVE TotalUnits(_)
TotalUnits(c) == IF c = <<>> THEN 0 ELSE UnitsOf(Head(c)) + TotalUnits(Tail(c))

\* ------------------------------------------------------------------- state
VARIABLES
    stream,       \* the compressed stream the client wants decoded: the file
                  \* at StreamPath, and the bytes it hands to from_memory
    params,       \* Decoder.params
    container,    \* the unit groups of the bitstream start read from the source
    decTx,        \* Decoder.tx is Some
    rxAlive,      \* the Decoder (and with it Decoder.rx) has not been dropped
    chan,         \* the channel's buffer
    pc,           \* the worker thread's position
    unitCount,    \* ssvu.get_v3c_unit_count() of the worker's ssvu
    gi,           \* index in container of the next unit group ssvu.decode reads
    fi,           \* index of the frame decoder.decode works on
    workerTx,     \* senders the worker thread holds (tx and the clone in decode)
    context,      \* the unit groups whose decoded state the worker's Context holds
    spawned,      \* worker threads ever spawned
    startCalls,   \* calls of start
    startPanics,  \* calls of start that panicked
    published,    \* frames whose send completed, in order
    delivered,    \* frames recv_frame returned, in order
    nones,        \* per consumer: recv_frame calls that returned None
    lateFrame,    \* some consumer got a frame after it had got None
    sendFailed,   \* a send of the worker returned Err
    binding,      \* PyTMC2Decoder around the Decoder: "absent" (the Decoder is
                  \* used from Rust), "unbuilt" (its constructor has not run),
                  \* "open" (decoder is Some), "closed" (decoder is None)
    closedNones,  \* next_frame calls answered None by a closed binding
    closeCalls    \* calls of close

vars == <<stream, params, container, decTx, rxAlive, chan, pc, unitCount, gi, fi,
          workerTx, context,
          spawned, startCalls, startPanics, published, delivered, nones,
          lateFrame, sendFailed, binding, closedNones, closeCalls>>

srcVars == <<stream, params>>
pyVars == <<binding, closedNones, closeCalls>>
workerVars == <<pc, unitCount, gi, fi, workerTx, context>>
clientVars == <<spawned, startCalls, startPanics>>
recvVars == <<delivered, nones, lateFrame>>

\* chan::bounded(1)
Capacity == 1

\* A Decoder that keeps no sender of its own (the sender of Decoder::new
\* dropped instead of stored in tx).
SendersWorkerOnly == workerTx

\* Senders alive: the one in Decoder.tx and the worker's.
Senders == (IF decTx THEN 1 ELSE 0) + workerTx

\* The frame decoder.decode reconstructs as frame f of group g.
Frame(g, f) == <<g, f>>

\* The path of the client's compressed stream, and PathBuf::default().
StreamPath == "path/to/compressed_stream"
NoPath == ""

\* BitstreamSource::File(path), BitstreamSource::Memory(data).
SourceFile(path) == [kind |-> "File", path |-> path, data |-> <<>>]
SourceMemory(data) == [kind |-> "Memory", path |-> NoPath, data |-> data]

\* impl Default for BitstreamSource: Memory(Vec::new()).
DefaultSource == SourceMemory(<<>>)

\* Params::new(compressed_stream_path): the path is stored, every other
\* field, the source among them, is the default.
ParamsNew(path) ==
    [source |-> DefaultSource, compressed_stream_path |-> path]

\* Decoder::from_memory(data): Params { source: Memory(data), ..default }.
ParamsFromMemory(data) ==
    [source |-> SourceMemory(data), compressed_stream_path |-> NoPath]

\* A client that sets the public field source to File(path) itself.
ParamsWithFileSource(path) ==
    [source |-> SourceFile(path), compressed_stream_path |-> NoPath]

\* The file system: the client's stream is the file at StreamPath.
FileContent(path) == IF path = StreamPath THEN stream ELSE <<>>

\* start: match &self.params.source { File(path) => Bitstream::from_file(path),
\* Memory(data) => Bitstream::from_bytes(data.clone()) }, then the unit
\* container SampleStreamV3CUnit::from_bitstream makes of it.
ReadSource(p) ==
    IF p.source.kind = "File" THEN FileContent(p.source.path) ELSE p.source.data

\* Decoder::new: a fresh channel, the sender kept in the Decoder.
Init ==
    /\ stream \in ContainersOf(MaxUnits)
    /\ \/ /\ binding = "absent"
          /\ params \in {ParamsNew(StreamPath), ParamsFromMemory(stream),
                         ParamsWithFileSource(StreamPath)}
       \/ /\ binding = "unbuilt"
          /\ params = ParamsFromMemory(stream)
    /\ closedNones = 0
    /\ closeCalls = 0
    /\ container = <<>>
    /\ decTx = TRUE
    /\ rxAlive = TRUE
    /\ chan = <<>>
    /\ pc = "idle"
    /\ unitCount = 0
    /\ gi = 1
    /\ fi = 1
    /\ workerTx = 0
    /\ context = {}
    /\ spawned = 0
    /\ startCalls = 0
    /\ startPanics = 0
    /\ published = <<>>
    /\ delivered = <<>>
    /\ nones = [c \in Consumers |-> 0]
    /\ lateFrame = FALSE
    /\ sendFailed = FALSE

\* ------------------------------------------------------------------ client
\* A start that clones the sender instead of taking it out of the Decoder:
\* every call spawns a worker.
StartWithoutTake ==
    /\ rxAlive
    /\ startCalls < MaxStartCalls
    /\ startCalls' = startCalls + 1
    /\ spawned' = spawned + 1
    /\ workerTx' = workerTx + 1
    /\ pc' = "loop"
    /\ container' = ReadSource(params)
    /\ unitCount' = TotalUnits(ReadSource(params))
    /\ UNCHANGED <<srcVars, context, decTx, rxAlive, chan, gi, fi, startPanics,
                   published, delivered, nones, lateFrame, sendFailed>>

\* Decoder::start(&mut self): reads the source into a fresh ssvu, then
\* self.tx.take().expect(..): the first call moves the sender and the ssvu
\* into a spawned worker, a later call finds None and panics before
\* thread::spawn (its ssvu is dropped with the call's frame).
Start ==
    /\ rxAlive
    /\ startCalls < MaxStartCalls
    /\ startCalls' = startCalls + 1
    /\ IF decTx
       THEN /\ decTx' = FALSE
            /\ workerTx' = 1
            /\ spawned' = spawned + 1
            /\ pc' = "loop"
            /\ container' = ReadSource(params)
            /\ unitCount' = TotalUnits(ReadSource(params))
            /\ UNCHANGED startPanics
       ELSE /\ startPanics' = startPanics + 1
            /\ UNCHANGED <<decTx, workerTx, spawned, pc, unitCount, container>>
    /\ UNCHANGED <<srcVars, context, rxAlive, chan, gi, fi, published, delivered,
                   nones, lateFrame, sendFailed>>

\* The client drops the Decoder: its rx goes, and its tx when start never
\* took it; the frame left in the buffer can no longer be received.
DropDecoder ==
    /\ rxAlive
    /\ rxAlive' = FALSE
    /\ decTx' = FALSE
    /\ chan' = <<>>
    /\ UNCHANGED <<srcVars, container, workerVars, clientVars, published, recvVars,
                   sendFailed>>

\* A recv that answers None as soon as the buffer is empty (try_recv), also
\* while a sender is alive.
RecvWithoutBlocking(c) ==
    /\ rxAlive
    /\ nones[c] < MaxNone
    /\ IF chan # <<>>
       THEN /\ delivered' = Append(delivered, Head(chan))
            /\ chan' = Tail(chan)
            /\ lateFrame' = (lateFrame \/ nones[c] > 0)
            /\ UNCHANGED nones
       ELSE /\ nones' = [nones EXCEPT ![c] = @ + 1]
            /\ UNCHANGED <<chan, delivered, lateFrame>>
    /\ UNCHANGED <<srcVars, pyVars, container, decTx, rxAlive, workerVars, clientVars,
                   published, sendFailed>>

\* A recv that answers None once every sender is gone, whatever the buffer
\* still holds.
RecvDropsBuffered(c) ==
    /\ rxAlive
    /\ nones[c] < MaxNone
    /\ \/ /\ Senders = 0
          /\ nones' = [nones EXCEPT ![c] = @ + 1]
          /\ UNCHANGED <<chan, delivered, lateFrame>>
       \/ /\ Senders > 0
          /\ chan # <<>>
          /\ delivered' = Append(delivered, Head(chan))
          /\ chan' = Tail(chan)
          /\ lateFrame' = (lateFrame \/ nones[c] > 0)
          /\ UNCHANGED nones
    /\ UNCHANGED <<srcVars, pyVars, container, decTx, rxAlive, workerVars, clientVars,
                   published, sendFailed>>

\* Decoder::recv_frame(&self), also Iterator::next: self.rx.recv().ok().
\* recv takes the oldest buffered frame; with the buffer empty it returns
\* Err (None) when no sender is left and blocks otherwise.
RecvFrame(c) ==
    /\ rxAlive
    /\ nones[c] < MaxNone
    /\ \/ /\ chan # <<>>
          /\ delivered' = Append(delivered, Head(chan))
          /\ chan' = Tail(chan)
          /\ lateFrame' = (lateFrame \/ nones[c] > 0)
          /\ UNCHANGED nones
       \/ /\ chan = <<>>
          /\ Senders = 0
          /\ nones' = [nones EXCEPT ![c] = @ + 1]
          /\ UNCHANGED <<chan, delivered, lateFrame>>
    /\ UNCHANGED <<srcVars, pyVars, container, decTx, rxAlive, workerVars, clientVars,
                   published, sendFailed>>

\* ------------------------------------------------------------------ worker
\* A loop that makes its Context once, before the first iteration, and
\* hands the same one to every unit group.
WorkerLoopReusesContext ==
    /\ pc = "loop"
    /\ pc' = IF unitCount > 0 THEN "ssvu" ELSE "drop"
    /\ UNCHANGED <<srcVars, pyVars, context, container, decTx, rxAlive, chan, unitCount,
                   gi, fi, workerTx, clientVars, published, recvVars,
                   sendFailed>>

\* while ssvu.get_v3c_unit_count() > 0 { let mut context = Context::default();
\* the body starts on a new, empty Context.
WorkerLoop ==
    /\ pc = "loop"
    /\ pc' = IF unitCount > 0 THEN "ssvu" ELSE "drop"
    /\ context' = IF unitCount > 0 THEN {} ELSE context
    /\ UNCHANGED <<srcVars, pyVars, container, decTx, rxAlive, chan, unitCount, gi, fi,
                   workerTx, clientVars, published, recvVars, sendFailed>>

\* A fault that leaves the worker's senders alive (the sender kept where
\* unwinding does not reach it).
UnwindLeaksSender ==
    /\ pc' = "panicked"
    /\ UNCHANGED workerTx

\* A panic inside the closure unwinds the worker thread: the closure's tx
\* and the clone handed to decoder.decode are dropped.
Unwind ==
    /\ pc' = "panicked"
    /\ workerTx' = 0

\* ssvu.decode(&mut context): consumes the units of the next group, or
\* faults on a group it cannot frame. Then decoder.decode(&mut context,
\* tx.clone()) is entered with its own sender.
SsvuDecode ==
    /\ pc = "ssvu"
    /\ IF container[gi].ssvu = "panic"
       THEN /\ Unwind
            /\ UNCHANGED <<unitCount, gi, fi, context>>
       ELSE /\ unitCount' = unitCount - UnitsOf(container[gi])
            /\ context' = context \cup {gi}
            /\ gi' = gi + 1
            /\ fi' = 1
            /\ workerTx' = workerTx + 1
            /\ pc' = "decode"
    /\ UNCHANGED <<srcVars, pyVars, container, decTx, rxAlive, chan, clientVars, published,
                   recvVars, sendFailed>>

\* The group decoder.decode is working on.
CurGroup == container[gi - 1]

\* decoder.decode, one frame: a frame with a patch or sub-stream error is
\* skipped, a reconstructed frame goes to tx.send, a fault unwinds.
DecodeFrame ==
    /\ pc = "decode"
    /\ fi <= Len(CurGroup.frames)
    /\ \/ /\ CurGroup.frames[fi] = "ok"
          /\ pc' = "send"
          /\ UNCHANGED <<fi, workerTx>>
       \/ /\ CurGroup.frames[fi] = "err"
          /\ fi' = fi + 1
          /\ UNCHANGED <<pc, workerTx>>
       \/ /\ CurGroup.frames[fi] = "panic"
          /\ Unwind
          /\ UNCHANGED fi
    /\ UNCHANGED <<srcVars, pyVars, context, container, decTx, rxAlive, chan, unitCount, gi, clientVars,
                   published, recvVars, sendFailed>>

\* A buffer without a bound (chan::unbounded()).
ChanNeverFull == FALSE

\* A buffer of two slots (chan::bounded(2)).
ChanFullAtTwo == Len(chan) >= Capacity + 1

\* The buffer has no free slot.
ChanFull == Len(chan) >= Capacity

\* tx.send(frame) inside decoder.decode, on the bounded(1) channel: Err
\* once the receiver is gone, which decode returns at once (its sender clone
\* dropped with it); else the send waits for the free slot.
WorkerSend ==
    /\ pc = "send"
    /\ IF ~rxAlive
       THEN /\ sendFailed' = TRUE
            /\ workerTx' = workerTx - 1
            /\ pc' = "err"
            /\ UNCHANGED <<chan, published, fi>>
       ELSE /\ ~ChanFull
            /\ chan' = Append(chan, Frame(gi - 1, fi))
            /\ published' = Append(published, Frame(gi - 1, fi))
            /\ fi' = fi + 1
            /\ pc' = "decode"
            /\ UNCHANGED <<sendFailed, workerTx>>
    /\ UNCHANGED <<srcVars, pyVars, context, container, decTx, rxAlive, unitCount, gi, clientVars,
                   recvVars>>

\* A loop that discards what decoder.decode returned and goes round.
ErrIgnored ==
    /\ pc = "err"
    /\ pc' = "loop"
    /\ UNCHANGED <<srcVars, pyVars, context, container, decTx, rxAlive, chan, unitCount, gi, fi,
                   workerTx, clientVars, published, recvVars, sendFailed>>

\* if let Err(_) = decoder.decode(..) { break; }
BreakOnErr ==
    /\ pc = "err"
    /\ pc' = "drop"
    /\ UNCHANGED <<srcVars, pyVars, context, container, decTx, rxAlive, chan, unitCount, gi, fi,
                   workerTx, clientVars, published, recvVars, sendFailed>>

\* A loop that stops after its first unit group.
DecodeReturnBreaks ==
    /\ pc = "decode"
    /\ fi > Len(CurGroup.frames)
    /\ workerTx' = workerTx - 1
    /\ pc' = "drop"
    /\ UNCHANGED <<srcVars, pyVars, context, container, decTx, rxAlive, chan, unitCount, gi, fi,
                   clientVars, published, recvVars, sendFailed>>

\* decoder.decode returns Ok(()) after the group's last frame: its sender
\* clone is dropped and the while loop goes round.
DecodeReturn ==
    /\ pc = "decode"
    /\ fi > Len(CurGroup.frames)
    /\ workerTx' = workerTx - 1
    /\ pc' = "loop"
    /\ UNCHANGED <<srcVars, pyVars, context, container, decTx, rxAlive, chan, unitCount, gi, fi,
                   clientVars, published, recvVars, sendFailed>>

\* A worker that ends without dropping its sender (mem::forget(tx)).
WorkerForgetsTx ==
    /\ pc = "drop"
    /\ pc' = "done"
    /\ UNCHANGED <<srcVars, pyVars, context, container, decTx, rxAlive, chan, unitCount, gi, fi,
                   workerTx, clientVars, published, recvVars, sendFailed>>

\* drop(tx); and the closure returns.
WorkerDropTx ==
    /\ pc = "drop"
    /\ workerTx' = workerTx - 1
    /\ pc' = "done"
    /\ UNCHANGED <<srcVars, pyVars, context, container, decTx, rxAlive, chan, unitCount, gi, fi,
                   clientVars, published, recvVars, sendFailed>>

Worker ==
    \/ WorkerLoop
    \/ SsvuDecode
    \/ DecodeFrame
    \/ WorkerSend
    \/ BreakOnErr
    \/ DecodeReturn
    \/ WorkerDropTx

\* The Rust client's calls on a Decoder it owns.
ClientStart == binding = "absent" /\ Start /\ UNCHANGED pyVars

ClientDrop == binding = "absent" /\ DropDecoder /\ UNCHANGED pyVars

Recv == binding = "absent" /\ \E c \in Consumers : RecvFrame(c)

\* ----------------------------------------------------------- Python binding
\* PyTMC2Decoder::new(stream): Decoder::from_memory(stream_data), then
\* decoder.start(), then Self { decoder: Some(decoder) }.
PyNew ==
    /\ binding = "unbuilt"
    /\ Start
    /\ binding' = "open"
    /\ UNCHANGED <<closedNones, closeCalls>>

\* PyTMC2Decoder::next_frame: with decoder Some, decoder.recv_frame() (the
\* frame turned into a dict, None handed on); with decoder None, Ok(None).
PyNextFrame ==
    \/ /\ binding = "open"
       /\ \E c \in Consumers : RecvFrame(c)
    \/ /\ binding = "closed"
       /\ closedNones < MaxNone
       /\ closedNones' = closedNones + 1
       /\ UNCHANGED <<srcVars, container, decTx, rxAlive, chan, workerVars,
                      clientVars, published, recvVars, sendFailed, binding,
                      closeCalls>>

\* A close that marks the binding closed and keeps the Decoder.
PyCloseKeepsDecoder ==
    /\ binding \in {"open", "closed"}
    /\ closeCalls < MaxCloseCalls
    /\ closeCalls' = closeCalls + 1
    /\ binding' = "closed"
    /\ UNCHANGED <<srcVars, container, decTx, rxAlive, chan, workerVars,
                   clientVars, published, recvVars, sendFailed, closedNones>>

\* PyTMC2Decoder::close: self.decoder = None, which drops the Decoder the
\* first time and changes nothing afterwards.
PyClose ==
    /\ binding \in {"open", "closed"}
    /\ closeCalls < MaxCloseCalls
    /\ closeCalls' = closeCalls + 1
    /\ IF binding = "open"
       THEN /\ DropDecoder
            /\ binding' = "closed"
       ELSE UNCHANGED <<srcVars, container, decTx, rxAlive, chan, workerVars,
                        clientVars, published, recvVars, sendFailed, binding>>
    /\ UNCHANGED closedNones

Next ==
    \/ ClientStart
    \/ ClientDrop
    \/ Recv
    \/ Worker
    \/ PyNew
    \/ PyNextFrame
    \/ PyClose

Spec == Init /\ [][Next]_vars

\* The worker thread is scheduled while it can run, and a consumer that is
\* pulling gets its answer when there is one.
FairSpec ==
    Spec /\ WF_vars(Worker) /\ WF_vars(Recv) /\ WF_vars(PyNextFrame)

\* ------------------------------------------------------------ properties
\* Some consumer has been told end-of-stream.
AnyNone == \E c \in Consumers : nones[c] > 0

\* The worker thread has ended, by returning or by unwinding.
WorkerExited == pc \in {"done", "panicked"}

\* The container holds a group or a frame whose decoding faults.
HasFault(c) ==
    \E g \in 1..Len(c) :
        \/ c[g].ssvu = "panic"
        \/ \E f \in 1..Len(c[g].frames) : c[g].frames[f] = "panic"

\* The frames a pass over container c yields from frame f of group g on:
\* every reconstructed frame in bitstream order, up to the first fault.
RECURSIVE FramesFrom(_, _, _)
FramesFrom(c, g, f) ==
    IF g > Len(c) THEN <<>>
    ELSE IF c[g].ssvu = "panic" THEN <<>>
    ELSE IF f > Len(c[g].frames) THEN FramesFrom(c, g + 1, 1)
    ELSE IF c[g].frames[f] = "panic" THEN <<>>
    ELSE IF c[g].frames[f] = "ok" THEN <<Frame(g, f)>> \o FramesFrom(c, g, f + 1)
    ELSE FramesFrom(c, g, f + 1)

ExpectedFrames(c) == FramesFrom(c, 1, 1)

\* C1: whatever the number of start calls, exactly the first one spawns a
\* worker and every later one panics: never more than one worker is spawned.
C1_SingleStart ==
    /\ spawned <= 1
    /\ startCalls > 0 => spawned = 1
    /\ startPanics + spawned = startCalls

C1_Witness == startCalls = 2 /\ startPanics = 1 /\ spawned = 1 /\ rxAlive

\* C2: the worker never has more than one completed publish ahead of the
\* consumer's pulls; with one frame ahead its next send is blocked, and once
\* that frame has been pulled the send can complete.
C2_Backpressure ==
    /\ Len(published) <= Len(delivered) + 1
    /\ (rxAlive /\ pc = "send" /\ Len(published) = Len(delivered) + 1)
            => ~ENABLED WorkerSend
    /\ (rxAlive /\ pc = "send" /\ Len(published) = Len(delivered))
            => ENABLED WorkerSend

C2_Witness ==
    /\ rxAlive
    /\ pc = "send"
    /\ Len(delivered) = 1
    /\ Len(published) = 2

\* C3: the buffer never holds more than one frame, and a publish completes
\* only when every earlier published frame has been taken by the consumer.
C3_SingleSlot ==
    /\ [](Len(chan) <= 1)
    /\ [][published' # published =>
            (chan = <<>> /\ Len(delivered) = Len(published))]_vars

C3_Witness ==
    /\ Len(chan) = 1
    /\ Len(published) = 2
    /\ Len(delivered) = 1

\* C4: the frames handed to the consumers are, in order and without
\* repetition, the frames published; while the Decoder lives the published
\* frames are the delivered ones followed by the buffered one, and at
\* end-of-stream every published frame has been delivered.
C4_DeliveredIsPublished ==
    /\ Len(delivered) <= Len(published)
    /\ delivered = SubSeq(published, 1, Len(delivered))
    /\ \A i, j \in 1..Len(delivered) : i # j => delivered[i] # delivered[j]
    /\ rxAlive => published = delivered \o chan
    /\ AnyNone => delivered = published

C4_Witness ==
    /\ AnyNone
    /\ pc = "done"
    /\ Len(delivered) >= 2

\* C5: after a consumer has got None no frame reaches it, the channel stays
\* empty with no sender, and its next recv_frame call returns at once.
C5_EndOfStreamStable ==
    /\ ~lateFrame
    /\ \A c \in Consumers :
          nones[c] > 0 => (chan = <<>> /\ Senders = 0 /\ spawned = 1)
    /\ \A c \in Consumers :
          (rxAlive /\ nones[c] > 0 /\ nones[c] < MaxNone) => ENABLED RecvFrame(c)

C5_Witness ==
    /\ \E c \in Consumers : nones[c] >= 2
    /\ delivered # <<>>

\* C6: once the Decoder is dropped no publish completes; a send attempted
\* or blocked then fails, after which the worker decodes no further unit
\* group or frame and ends.
C6_Cancellation ==
    /\ [][~rxAlive => published' = published]_vars
    /\ [](sendFailed => pc \in {"err", "drop", "done"})
    /\ [][sendFailed => (gi' = gi /\ fi' = fi /\ unitCount' = unitCount)]_vars
    /\ (~rxAlive /\ pc = "send") ~> (sendFailed /\ pc = "done")

C6_Witness ==
    /\ sendFailed
    /\ pc = "done"
    /\ unitCount > 0

\* C7: on a container without faults, a started decoder whose consumers
\* keep pulling (the Decoder is not dropped) reaches the end of the
\* container, the worker returns with every sender dropped, and a consumer
\* gets None.
C7_NormalPathEnds ==
    (spawned = 1 /\ ~HasFault(container))
        ~> (~rxAlive \/ (pc = "done" /\ unitCount = 0 /\ Senders = 0 /\ AnyNone))

C7_Witness ==
    /\ pc = "done"
    /\ unitCount = 0
    /\ AnyNone
    /\ gi > 2
    /\ Len(delivered) >= 2

\* C8: however the worker ends (loop exhausted, send failure, fault in
\* ssvu.decode or decoder.decode) no sender is left, and a live consumer is
\* then told end-of-stream.
C8_ExitClosesStream ==
    /\ [](WorkerExited => Senders = 0)
    /\ WorkerExited ~> (~rxAlive \/ AnyNone)

C8_Witness ==
    /\ pc = "panicked"
    /\ AnyNone
    /\ delivered # <<>>

\* C9: a worker that ran to the end of the container without a send failure
\* has published every reconstructed frame of every unit group, also of the
\* groups after one whose frame was skipped on a patch or sub-stream error.
C9_ErrorSkipsOneFrame ==
    (pc = "done" /\ ~sendFailed) => published = ExpectedFrames(container)

C9_Witness ==
    /\ pc = "done"
    /\ ~sendFailed
    /\ Len(container) >= 2
    /\ \E f \in 1..Len(container[1].frames) : container[1].frames[f] = "err"
    /\ \E i \in 1..Len(published) : published[i][1] = 2

\* C10: at end-of-stream the frames the consumers received are a function
\* of the container alone, whatever the interleaving of worker and consumers.
C10_SchedulingIndependent ==
    AnyNone => delivered = ExpectedFrames(container)

C10_Witness ==
    /\ AnyNone
    /\ Len(delivered) = 3

\* C11: the bitstream a started decoder decodes is the stream of the source
\* it was constructed for: the file at the path given to Params::new, the
\* bytes given to from_memory.
C11_DecodesConstructedSource == spawned = 1 => container = stream

\* C12: the Context a unit group is decoded with holds the state of that
\* group alone: ssvu.decode is handed an empty Context, and decoder.decode
\* one filled from its own group and no earlier one.
C12_FreshContext ==
    /\ pc = "ssvu" => context = {}
    /\ pc \in {"decode", "send"} => context = {gi - 1}

C12_Witness ==
    /\ pc = "decode"
    /\ gi = 3
    /\ context = {2}

\* The orchestrator's state: Created until start has spawned the worker,
\* Running while the worker thread lives, Finished once it has ended.
Lifecycle ==
    IF pc = "idle" THEN "Created"
    ELSE IF WorkerExited THEN "Finished"
    ELSE "Running"

\* Created -> Running, by a call of start.
StartedStep ==
    /\ Lifecycle = "Created"
    /\ Lifecycle' = "Running"
    /\ startCalls' = startCalls + 1

\* Running -> Finished, the worker returning with the container exhausted
\* or after a rejected publish.
FinishedStep ==
    /\ Lifecycle = "Running"
    /\ pc' = "done"
    /\ unitCount = 0 \/ sendFailed

\* Running -> Finished, the worker unwinding from a fault in ssvu.decode or
\* decoder.decode.
FaultedStep ==
    /\ Lifecycle = "Running"
    /\ pc' = "panicked"

\* Frames are published only while Running.
PublishOnlyRunning ==
    published' # published => (Lifecycle = "Running" /\ Lifecycle' = "Running")

\* C13 as stated: the lifecycle changes only by Created -> Running (start)
\* and Running -> Finished (container exhausted or publish rejected), and a
\* frame is published only while Running.
C13_LifecycleAsStated ==
    /\ [][Lifecycle' # Lifecycle => (StartedStep \/ FinishedStep)]_vars
    /\ [][PublishOnlyRunning]_vars

\* C13 amended: the lifecycle changes only by Created -> Running (start) and
\* Running -> Finished (container exhausted, publish rejected, or a fault
\* that unwinds the worker); it never goes back, and a frame is published
\* only while Running.
C13_Lifecycle ==
    /\ [][Lifecycle' # Lifecycle =>
            (StartedStep \/ FinishedStep \/ FaultedStep)]_vars
    /\ [][PublishOnlyRunning]_vars

C13_Witness ==
    /\ Lifecycle = "Finished"
    /\ pc = "done"
    /\ unitCount = 0
    /\ published # <<>>
    /\ startPanics = 1

\* C14: while the decoder is Created and alive no recv_frame call returns:
\* nothing has been delivered, nobody has got None and a call made now
\* blocks. None is returned only once start has taken the Decoder's sender
\* and the worker has dropped every sender it held.
C14_BlocksUntilStarted ==
    /\ (Lifecycle = "Created" /\ rxAlive) =>
          /\ decTx
          /\ delivered = <<>>
          /\ ~AnyNone
          /\ \A c \in Consumers : ~ENABLED RecvFrame(c)
    /\ AnyNone => (~decTx /\ workerTx = 0 /\ spawned = 1 /\ WorkerExited)

C14_Witness ==
    /\ AnyNone
    /\ spawned = 1
    /\ ~decTx
    /\ workerTx = 0
    /\ delivered = <<>>

\* C15: a start call on a decoder already started panics and changes
\* nothing else: the worker, the channel with its buffered frame and what
\* was published and delivered stay as they were; the consumers of the
\* Decoder, as long as it is not dropped, still get the pass's frames in
\* order and then None.
C15_SecondStartHarmless ==
    /\ [][(startCalls >= 1 /\ startCalls' # startCalls) =>
            /\ startPanics' = startPanics + 1
            /\ UNCHANGED <<srcVars, pyVars, container, decTx, rxAlive, chan,
                           workerVars, spawned, published, recvVars,
                           sendFailed>>]_vars
    /\ []((startPanics > 0 /\ AnyNone) => delivered = ExpectedFrames(container))
    /\ (startPanics > 0) ~> (~rxAlive \/ AnyNone)

C15_Witness ==
    /\ startPanics = 1
    /\ rxAlive
    /\ pc = "send"
    /\ Len(chan) = 1
    /\ Len(delivered) = 1

\* C16: the binding's constructor starts the wrapped decoder exactly once;
\* close drops the Decoder, so that nothing is published or delivered
\* afterwards and the worker ends; a closed binding answers next_frame with
\* None at once, and a further close changes nothing.
C16_PyBinding ==
    /\ [](binding = "unbuilt" => (startCalls = 0 /\ spawned = 0))
    /\ [](binding \in {"open", "closed"} =>
            (startCalls = 1 /\ spawned = 1 /\ startPanics = 0))
    /\ [](binding = "open" => rxAlive)
    /\ [](binding = "closed" => (~rxAlive /\ chan = <<>> /\ ~decTx))
    /\ []((binding = "closed" /\ closedNones < MaxNone) => ENABLED PyNextFrame)
    /\ [][binding = "closed" =>
            /\ binding' = "closed"
            /\ UNCHANGED <<published, recvVars, rxAlive, chan>>]_vars
    /\ [][(binding = "closed" /\ closeCalls' # closeCalls) =>
            UNCHANGED <<srcVars, container, decTx, rxAlive, chan, workerVars,
                        clientVars, published, recvVars, sendFailed, binding,
                        closedNones>>]_vars
    /\ (binding = "closed") ~> WorkerExited

C16_Witness ==
    /\ binding = "closed"
    /\ closeCalls = 2
    /\ closedNones >= 1
    /\ sendFailed
    /\ pc = "done"

====
